---- MODULE Spec2Model ----
(***************************************************************************)
(* The development-environment launchers of NSSPORTS.                      *)
(*                                                                         *)
(* Two variants of run() are kept in the repository:                       *)
(*   "scripts"  : src/scripts/start.py   (server, ngrok tunnel, worker)    *)
(*   "nssports" : src/nssports/start.py  (server, ngrok tunnel)            *)
(* A behaviour of the model is one execution of run() of one variant,      *)
(* together with the environment: child processes that may exit at any     *)
(* moment, HTTP requests with arbitrary outcomes, and the user pressing    *)
(* Ctrl+C (KeyboardInterrupt).                                             *)
(***************************************************************************)
EXTENDS Integers, Sequences, FiniteSets, TLC

VARIABLES
    variant,        \* which launcher is running
    pc,             \* position of the supervisor in run()
    handle,         \* dev_server / ngrok / settlement_worker is not None
    spawned,        \* Popen(...) was called for the process in this run
    alive,          \* the OS process is running
    termLog,        \* terminate() / kill() calls, in order of issue
    fin,            \* index into FinalSeq of the block of finally being run
    elapsed,        \* time.time() - start_time inside wait_for_server
    attempt,        \* loop variable of verify_ngrok_tunnel
    reqs,           \* requests.get calls issued by the poll in progress
    interrupts,     \* KeyboardInterrupts delivered so far
    gate,           \* result of wait_for_server
    tunnelStage,    \* result of the tunnel check
    workerStage,    \* result of settlement_worker.poll()
    readyReported,  \* the launcher announced the environment and went idle
    pending,        \* exception travelling through finally
    exitStatus,     \* status with which the interpreter leaves run()
    idleTicks,      \* iterations of `while True: time.sleep(1)`, modulo MaxIdle + 1
    portPids,       \* processes bound to DEV_SERVER_PORT before start
    reapKills,      \* taskkill commands issued by kill_process_on_port
    stale,          \* a process that could not be killed still listens on the port
    spawns,         \* number of Popen(...) calls per process
    vlog,           \* requests of verify_ngrok_tunnel: attempt, url, answered 200
    pipe,           \* output of each child lying unread in its stdout/stderr pipe
    blocked,        \* the child is stuck in a write to its full pipe
    \* scripts/clean.py
    cpc,            \* position of safe_delete_empty_files
    fsize,          \* size in bytes of every file of the tree
    empty_files,    \* the list returned by find_empty_files
    answer,         \* what the user typed at the confirmation
    idx,            \* position of the deletion loop in empty_files
    recheck,        \* result of the re-check made for each file
    deleted         \* files unlinked by the cleaner

vars == <<variant, pc, handle, spawned, alive, termLog, fin, elapsed, attempt,
          reqs, interrupts, gate, tunnelStage, workerStage, readyReported,
          pending, exitStatus, idleTicks, portPids, reapKills, stale, spawns,
          vlog, pipe, blocked, cpc, fsize, empty_files, answer, idx, recheck, deleted>>

launcherVars == <<variant, pc, handle, spawned, alive, termLog, fin, elapsed,
                  attempt, reqs, interrupts, gate, tunnelStage, workerStage,
                  readyReported, pending, exitStatus, idleTicks, portPids,
                  reapKills, stale, spawns, vlog, pipe, blocked>>

pipeVars == <<pipe, blocked>>

cleanVars == <<cpc, fsize, empty_files, answer, idx, recheck, deleted>>

(***************************************************************************)
(* Bounds of the model.                                                    *)
(***************************************************************************)
MaxInterrupts == 2      \* Ctrl+C presses in one run
MaxIdle == 2            \* the idle loop's iterations are counted modulo MaxIdle + 1
MaxPids == 2            \* processes found on the port
MaxDepth == 2           \* depth of the directory tree under PROJECT_ROOT
PipeCap == 2            \* writes a pipe buffers before the next one blocks
Latency == 1            \* seconds taken by a request that is answered or refused

Variants == {"scripts", "nssports"}
Procs == {"server", "tunnel", "worker"}

(***************************************************************************)
(* Configuration constants of the two launchers.                           *)
(***************************************************************************)
SERVER_TIMEOUT == IF variant = "scripts" THEN 90 ELSE 60
InitialDelay == IF variant = "scripts" THEN 10 ELSE 0
HealthReqTimeout == 5
RootReqTimeout == IF variant = "scripts" THEN 10 ELSE 1
RetrySleep == IF variant = "scripts" THEN 4 ELSE 1
max_attempts == 3

\* Start order of the processes; shutdown is meant to be its reverse.
StartRank(p) == CASE p = "server" -> 1 [] p = "tunnel" -> 2 [] p = "worker" -> 3

(***************************************************************************)
(* Outcomes of requests.get: a response with a status code, or one of the  *)
(* exceptions of requests.exceptions.                                      *)
(***************************************************************************)
Statuses == {200, 404, 503}
Resp(s) == [exc |-> "none", status |-> s]
Exc(e) == [exc |-> e, status |-> 0]
RequestExceptions == {"ConnectionError", "ReadTimeout", "OtherRequestException"}

\* What a GET can yield, given whether the process behind the URL is up.
Outcomes(up) ==
    IF up THEN {Resp(s) : s \in Statuses} \cup {Exc(e) : e \in RequestExceptions}
    ELSE {Exc("ConnectionError")}

\* Popen(..., stdout=subprocess.PIPE, stderr=subprocess.PIPE): the output of
\* the child goes to pipes held by the launcher.
Piped(p) == variant = "nssports" /\ p \in {"server", "tunnel"}

\* Something answers on http://localhost:DEV_SERVER_PORT.
LocalUp == (alive["server"] /\ ~blocked["server"]) \/ stale

\* Seconds a GET takes: the whole per-request timeout when it times out.
Duration(o, reqTimeout) == IF o.exc = "ReadTimeout" THEN reqTimeout ELSE Latency


(***************************************************************************)
(* Helpers on the state.                                                   *)
(***************************************************************************)
\* The blocks of `finally` written in start order.
FinalSeqStartOrder ==
    IF variant = "scripts" THEN <<"server", "tunnel", "worker">>
    ELSE <<"server", "tunnel">>

\* The blocks of `finally`, in the order in which they are written.
FinalSeq ==
    IF variant = "scripts" THEN <<"worker", "tunnel", "server">>
    ELSE <<"tunnel", "server">>

\* How each block of `finally` waits after terminate():
\*   "wait"  : wait(timeout=10), kill() on TimeoutExpired   (settlement worker)
\*   "sleep" : time.sleep(n), then kill() unconditionally   (ngrok, dev server)
\*   "none"  : terminate() only                             (nssports/start.py)
GraceKind(p) ==
    IF variant = "nssports" THEN "none"
    ELSE IF p = "worker" THEN "wait" ELSE "sleep"

\* Is an Exception raised by terminate() of p caught inside its block?
TermErrorCaught(p) == variant = "scripts" /\ p = "worker"

\* Is an Exception raised by kill() of p caught inside its block?
KillErrorCaught(p) == p # "worker"

\* A bare `except:` in verify_ngrok_tunnel.
VerifyBareExcept == TRUE

\* Does `except Exception` of verify_ngrok_tunnel catch KeyboardInterrupt?
VerifyCatchesInterrupt == FALSE

\* Exceptions of the root GET caught by the outer handler of wait_for_server.
CaughtByProbe(e) == e \in {"ConnectionError", "ReadTimeout"}

\* The accept predicate of the root GET.
RootAccepted(o) ==
    /\ o.exc = "none"
    /\ (variant = "scripts" => o.status < 500)

TryStates == {"spawn_server", "ws_loop", "ws_root", "fail_terminate",
              "spawn_tunnel", "vt_local", "vt_tunnel", "spawn_worker",
              "worker_check", "server_poll", "tunnel_poll", "idle"}
VerifyStates == {"vt_local", "vt_tunnel"}
PollStates == {"ws_loop", "ws_root", "vt_local", "vt_tunnel"}
FinallyStates == {"fin_term", "fin_grace"}
PcStates == {"reap", "done"} \cup TryStates \cup FinallyStates

Spawn(p) ==
    /\ handle' = [handle EXCEPT ![p] = TRUE]
    /\ spawned' = [spawned EXCEPT ![p] = TRUE]
    /\ alive' = [alive EXCEPT ![p] = TRUE]
    /\ spawns' = [spawns EXCEPT ![p] = @ + 1]

LogCall(op, p) == Append(termLog, [op |-> op, proc |-> p, exited |-> ~alive[p]])

Calls(op, p) == {i \in 1..Len(termLog) : termLog[i].op = op /\ termLog[i].proc = p}

(***************************************************************************)
(* scripts/clean.py: the tree under PROJECT_ROOT.  A directory is the       *)
(* sequence of directory names leading to it; every directory holds one    *)
(* file, named after its directory.                                        *)
(***************************************************************************)
EXCLUDED_DIRS == {".git", "node_modules", ".next", "dist", "build",
                  "__pycache__", ".pytest_cache", "coverage"}

\* Directory names of the tree, in the order in which os.walk lists them.
DirOrder == <<"node_modules", "src">>

RECURSIVE DirsUpTo(_)
DirsUpTo(n) ==
    IF n = 0 THEN {<<>>}
    ELSE LET shorter == DirsUpTo(n - 1)
         IN  shorter \cup {Append(d, DirOrder[k]) : d \in shorter, k \in 1..Len(DirOrder)}

Files == DirsUpTo(MaxDepth)

\* The file lies under a directory whose name is excluded.
InExcluded(f) == \E i \in 1..Len(f) : f[i] \in EXCLUDED_DIRS

\* The cleaner is not running.
CleanerOff ==
    /\ cpc = "off"
    /\ fsize = [f \in Files |-> 1]
    /\ empty_files = <<>>
    /\ answer = ""
    /\ idx = 0
    /\ recheck = [f \in Files |-> "none"]
    /\ deleted = {}

(***************************************************************************)
(* Initial state: run() is about to clean the port.                        *)
(***************************************************************************)
Init ==
    /\ CleanerOff
    /\ variant \in Variants
    /\ pc = "reap"
    /\ handle = [p \in Procs |-> FALSE]
    /\ spawned = [p \in Procs |-> FALSE]
    /\ alive = [p \in Procs |-> FALSE]
    /\ termLog = <<>>
    /\ fin = 0
    /\ elapsed = 0
    /\ attempt = 0
    /\ reqs = 0
    /\ interrupts = 0
    /\ gate = "none"
    /\ tunnelStage = "none"
    /\ workerStage = "none"
    /\ readyReported = FALSE
    /\ pending = "none"
    /\ exitStatus = "none"
    /\ idleTicks = 0
    /\ portPids \in 0..MaxPids
    /\ reapKills = 0
    /\ stale = FALSE
    /\ spawns = [p \in Procs |-> 0]
    /\ vlog = <<>>
    /\ pipe = [p \in Procs |-> 0]
    /\ blocked = [p \in Procs |-> FALSE]

(***************************************************************************)
(* Startup.                                                                *)
(***************************************************************************)
\* subprocess.run(..., check=True): a failed taskkill raises.
KillProcessOnPortChecked ==
    /\ pc = "reap"
    /\ reapKills' = portPids
    /\ stale' \in (IF portPids > 0 THEN BOOLEAN ELSE {FALSE})
    /\ IF stale'
       THEN pc' = "done" /\ pending' = "Error" /\ exitStatus' = "nonzero"
       ELSE pc' = "spawn_server" /\ UNCHANGED <<pending, exitStatus>>
    /\ UNCHANGED <<cleanVars, pipeVars, variant, spawns, vlog, handle, spawned, alive,
                   termLog,
                   fin, elapsed, attempt, reqs, interrupts, gate, tunnelStage,
                   workerStage, readyReported, idleTicks, portPids>>

\* kill_process_on_port(DEV_SERVER_PORT): one `taskkill /F` per pid found on
\* the port.  The result of taskkill is not looked at: when a kill fails
\* the process keeps the port and the function returns all the same.
KillProcessOnPort ==
    /\ pc = "reap"
    /\ reapKills' = portPids
    /\ stale' \in (IF portPids > 0 THEN BOOLEAN ELSE {FALSE})
    /\ pc' = "spawn_server"
    /\ UNCHANGED <<cleanVars, pipeVars, variant, spawns, vlog, handle, spawned, alive,
                   termLog, fin, elapsed,
                   attempt, reqs, interrupts, gate, tunnelStage, workerStage,
                   readyReported, pending, exitStatus, idleTicks, portPids>>

\* dev_server = subprocess.Popen([npm, 'run', 'dev'], ...), then the call of
\* wait_for_server up to its loop (start_time, the initial sleep).
SpawnServer ==
    /\ pc = "spawn_server"
    /\ Spawn("server")
    /\ elapsed' = InitialDelay
    /\ reqs' = 0
    /\ pc' = "ws_loop"
    /\ UNCHANGED <<cleanVars, pipeVars, variant, stale, vlog, termLog, fin, attempt,
                   interrupts, gate,
                   tunnelStage, workerStage, readyReported, pending,
                   exitStatus, idleTicks, portPids, reapKills>>

\* The `return` after "Server initialization failed" is missing.
GateFailFallsThrough == "spawn_tunnel"

\* Where run() goes when wait_for_server returns False.
GateFailTarget == IF variant = "scripts" THEN "fin_term" ELSE "fail_terminate"

\* wait_for_server: the loop condition fails, return False.
WaitTimedOut ==
    /\ pc = "ws_loop"
    /\ ~(elapsed < SERVER_TIMEOUT)
    /\ gate' = "timedout"
    /\ elapsed' = 0
    /\ reqs' = 0
    /\ pc' = GateFailTarget
    /\ fin' = 1
    /\ UNCHANGED <<cleanVars, pipeVars, variant, stale, spawns, vlog, handle, spawned,
                   alive, termLog, attempt,
                   interrupts, tunnelStage, workerStage, readyReported,
                   pending, exitStatus, idleTicks, portPids, reapKills>>

\* run() starts the worker right after the gate, before the tunnel.
GateReadySkipsTunnel ==
    /\ gate' = "ready"
    /\ elapsed' = 0
    /\ reqs' = 0
    /\ pc' = "spawn_worker"

\* wait_for_server returns True (after the stabilization sleep).
GateReady ==
    /\ gate' = "ready"
    /\ elapsed' = 0
    /\ reqs' = 0
    /\ pc' = "spawn_tunnel"

\* scripts/start.py: the GET of /api/health inside the loop.
HealthGet ==
    /\ variant = "scripts"
    /\ pc = "ws_loop"
    /\ elapsed < SERVER_TIMEOUT
    /\ \E o \in Outcomes(LocalUp) :
         IF o.exc = "none" /\ o.status = 200
         THEN GateReady
         ELSE /\ pc' = "ws_root"
              /\ elapsed' = elapsed + Duration(o, HealthReqTimeout)
              /\ reqs' = reqs + 1
              /\ gate' = gate
    /\ UNCHANGED <<cleanVars, pipeVars, variant, stale, spawns, vlog, handle, spawned,
                   alive, termLog, fin, attempt,
                   interrupts, tunnelStage, workerStage, readyReported,
                   pending, exitStatus, idleTicks, portPids, reapKills>>

\* The GET of http://localhost:port: the fallback of scripts/start.py, the
\* only request of nssports/start.py.
RootGet ==
    /\ \/ variant = "scripts" /\ pc = "ws_root"
       \/ variant = "nssports" /\ pc = "ws_loop" /\ elapsed < SERVER_TIMEOUT
    /\ \E o \in Outcomes(LocalUp) :
         IF RootAccepted(o)
         THEN GateReady /\ UNCHANGED <<fin, pending>>
         ELSE IF o.exc = "none"
         THEN /\ pc' = "ws_loop"
              /\ elapsed' = elapsed + Duration(o, RootReqTimeout)
              /\ reqs' = reqs + 1
              /\ UNCHANGED <<gate, fin, pending>>
         ELSE IF CaughtByProbe(o.exc)
         THEN /\ pc' = "ws_loop"
              /\ elapsed' = elapsed + Duration(o, RootReqTimeout) + RetrySleep
              /\ reqs' = reqs + 1
              /\ UNCHANGED <<gate, fin, pending>>
         ELSE /\ pc' = "fin_term"
              /\ fin' = 1
              /\ pending' = "Error"
              /\ gate' = "error"
              /\ elapsed' = 0
              /\ reqs' = reqs + 1
    /\ UNCHANGED <<cleanVars, pipeVars, variant, stale, spawns, vlog, handle, spawned,
                   alive, termLog, attempt,
                   interrupts, tunnelStage, workerStage, readyReported,
                   exitStatus, idleTicks, portPids, reapKills>>

\* dev_server.terminate() without the sys.exit(1) after it.
FailTerminateNoExit ==
    /\ pc = "fail_terminate"
    /\ termLog' = LogCall("terminate", "server")
    /\ pc' = "spawn_tunnel"
    /\ UNCHANGED <<cleanVars, pipeVars, variant, stale, spawns, vlog, handle, spawned,
                   alive,
                   elapsed, attempt, reqs, interrupts, gate, tunnelStage,
                   workerStage, readyReported, exitStatus, idleTicks,
                   portPids, reapKills, fin, pending>>

\* nssports/start.py: dev_server.terminate(); sys.exit(1).
FailTerminate ==
    /\ pc = "fail_terminate"
    /\ termLog' = LogCall("terminate", "server")
    /\ \E raised \in BOOLEAN :
         pending' = IF raised THEN "Error" ELSE "SystemExit"
    /\ pc' = "fin_term"
    /\ fin' = 1
    /\ UNCHANGED <<cleanVars, pipeVars, variant, stale, spawns, vlog, handle, spawned,
                   alive, elapsed, attempt, reqs,
                   interrupts, gate, tunnelStage, workerStage, readyReported,
                   exitStatus, idleTicks, portPids, reapKills>>


(***************************************************************************)
(* Tunnel stage.                                                           *)
(***************************************************************************)
\* ngrok = subprocess.Popen(['ngrok', 'http', ...]).
SpawnTunnel ==
    /\ pc = "spawn_tunnel"
    /\ Spawn("tunnel")
    /\ pc' = IF variant = "scripts" THEN "vt_local" ELSE "server_poll"
    /\ attempt' = IF variant = "scripts" THEN 1 ELSE 0
    /\ reqs' = 0
    /\ UNCHANGED <<cleanVars, pipeVars, variant, stale, vlog, termLog, fin, elapsed,
                   interrupts, gate,
                   tunnelStage, workerStage, readyReported, pending,
                   exitStatus, idleTicks, portPids, reapKills>>

\* What a GET of the public URL can yield: 200 only through a live tunnel
\* to a live server.
TunnelOutcomes ==
    IF LocalUp /\ alive["tunnel"] THEN Outcomes(TRUE)
    ELSE Outcomes(TRUE) \ {Resp(200)}

\* A failed verification treated as fatal: `return` after the warning.
VerifyFailAborts == "fin_term"

\* Where run() goes when verify_ngrok_tunnel returns False.
VerifyFailTarget == "spawn_worker"

\* `range(1, max_attempts + 2)`: one attempt too many.
NextAttemptOffByOne ==
    IF attempt <= max_attempts
    THEN /\ attempt' = attempt + 1
         /\ pc' = "vt_local"
         /\ UNCHANGED tunnelStage
    ELSE /\ attempt' = 0
         /\ pc' = VerifyFailTarget
         /\ tunnelStage' = "fail"

\* verify_ngrok_tunnel: the attempt in progress has failed.
NextAttempt ==
    IF attempt < max_attempts
    THEN /\ attempt' = attempt + 1
         /\ pc' = "vt_local"
         /\ UNCHANGED tunnelStage
    ELSE /\ attempt' = 0
         /\ pc' = VerifyFailTarget
         /\ tunnelStage' = "fail"

\* The outcome is a response with status 200.
Is200(o) == o.exc = "none" /\ o.status = 200

VLogged(url, o) == Append(vlog, [attempt |-> attempt, url |-> url, ok |-> Is200(o)])

\* The local check accepts any response.
LocalOkAnyResponse(o) == o.exc = "none"

\* verify_ngrok_tunnel: the local check passes (`status_code != 200` is false).
LocalOk(o) == o.exc = "none" /\ ~(o.status # 200)

\* verify_ngrok_tunnel: the GET of the local health endpoint.
VerifyLocalGet ==
    /\ pc = "vt_local"
    /\ reqs' = reqs + 1
    /\ \E o \in Outcomes(LocalUp) :
         /\ vlog' = VLogged("local", o)
         /\ IF LocalOk(o)
            THEN pc' = "vt_tunnel" /\ UNCHANGED <<attempt, tunnelStage>>
            ELSE NextAttempt
    /\ fin' = IF pc' \in FinallyStates THEN 1 ELSE fin
    /\ UNCHANGED <<cleanVars, pipeVars, variant, stale, spawns, handle, spawned, alive,
                   termLog, elapsed,
                   interrupts, gate, workerStage, readyReported, pending,
                   exitStatus, idleTicks, portPids, reapKills>>

\* verify_ngrok_tunnel: the GET of the public health endpoint.
VerifyTunnelGet ==
    /\ pc = "vt_tunnel"
    /\ reqs' = reqs + 1
    /\ \E o \in TunnelOutcomes :
         /\ vlog' = VLogged("tunnel", o)
         /\ IF o.exc = "none" /\ o.status = 200
            THEN /\ pc' = "spawn_worker"
                 /\ tunnelStage' = "pass"
                 /\ attempt' = 0
            ELSE NextAttempt
    /\ fin' = IF pc' \in FinallyStates THEN 1 ELSE fin
    /\ UNCHANGED <<cleanVars, pipeVars, variant, stale, spawns, handle, spawned, alive,
                   termLog, elapsed,
                   interrupts, gate, workerStage, readyReported, pending,
                   exitStatus, idleTicks, portPids, reapKills>>

\* nssports/start.py: `if dev_server.poll() is not None: ... return`.
ServerPoll ==
    /\ pc = "server_poll"
    /\ IF alive["server"]
       THEN pc' = "tunnel_poll" /\ UNCHANGED <<fin, pipe>>
       ELSE /\ pc' = "fin_term" /\ fin' = 1
            \* dev_server.communicate() reads what the dead server left
            /\ pipe' = [pipe EXCEPT !["server"] = 0]
    /\ UNCHANGED <<cleanVars, blocked, variant, stale, spawns, vlog, handle, spawned,
                   alive, termLog, elapsed, attempt,
                   reqs, interrupts, gate, tunnelStage, workerStage,
                   readyReported, pending, exitStatus, idleTicks, portPids,
                   reapKills>>

\* Where run() goes after `ngrok.poll()` found the tunnel exited.
TunnelExitedTarget == "idle"

\* nssports/start.py: `if ngrok.poll() is None`, then "Press Ctrl+C".
TunnelPoll ==
    /\ pc = "tunnel_poll"
    /\ IF alive["tunnel"]
       THEN /\ tunnelStage' = "pass"
            /\ pc' = "idle"
            /\ UNCHANGED pipe
       ELSE /\ tunnelStage' = "fail"
            /\ pc' = TunnelExitedTarget
            \* ngrok.communicate(timeout=1) reads what the dead tunnel left
            /\ pipe' = [pipe EXCEPT !["tunnel"] = 0]
    /\ readyReported' = (pc' = "idle")
    /\ fin' = IF pc' \in FinallyStates THEN 1 ELSE fin
    /\ UNCHANGED <<cleanVars, blocked, variant, stale, spawns, vlog, handle, spawned,
                   alive, termLog, elapsed, attempt,
                   reqs, interrupts, gate, workerStage, pending, exitStatus,
                   idleTicks, portPids, reapKills>>

(***************************************************************************)
(* Worker stage and idle wait.                                             *)
(***************************************************************************)
\* settlement_worker = subprocess.Popen(['npx', 'tsx', ...]).
SpawnWorker ==
    /\ pc = "spawn_worker"
    /\ Spawn("worker")
    /\ pc' = "worker_check"
    /\ UNCHANGED <<cleanVars, pipeVars, variant, stale, vlog, termLog, fin, elapsed,
                   attempt, reqs, interrupts,
                   gate, tunnelStage, workerStage, readyReported, pending,
                   exitStatus, idleTicks, portPids, reapKills>>

\* Where run() goes after `settlement_worker.poll()` found the worker exited.
WorkerExitedTarget == "idle"

\* The failed worker stays tracked.
FailedWorkerKept == TRUE

\* `settlement_worker = None` after the check found the worker exited: is
\* the worker still tracked?
FailedWorkerTracked == FALSE

\* `if settlement_worker.poll() is None`, then the ENVIRONMENT READY banner.
WorkerCheck ==
    /\ pc = "worker_check"
    /\ IF alive["worker"]
       THEN /\ workerStage' = "ready"
            /\ pc' = "idle"
            /\ UNCHANGED handle
       ELSE /\ workerStage' = "failed"
            /\ handle' = [handle EXCEPT !["worker"] = FailedWorkerTracked]
            /\ pc' = WorkerExitedTarget
    /\ readyReported' = (pc' = "idle")
    /\ fin' = IF pc' \in FinallyStates THEN 1 ELSE fin
    /\ UNCHANGED <<cleanVars, pipeVars, variant, stale, spawns, vlog, spawned, alive,
                   termLog, elapsed, attempt, reqs,
                   interrupts, gate, tunnelStage, pending, exitStatus,
                   idleTicks, portPids, reapKills>>

\* scripts/start.py: one iteration of `while True: time.sleep(1)`.
IdleTick ==
    /\ variant = "scripts"
    /\ pc = "idle"
    /\ idleTicks' = (idleTicks + 1) % (MaxIdle + 1)
    /\ UNCHANGED <<cleanVars, pipeVars, variant, stale, spawns, vlog, pc, handle,
                   spawned, alive, termLog, fin, elapsed,
                   attempt, reqs, interrupts, gate, tunnelStage, workerStage,
                   readyReported, pending, exitStatus, portPids, reapKills>>

\* nssports/start.py: dev_server.wait() returns.
ServerWaitReturns ==
    /\ variant = "nssports"
    /\ pc = "idle"
    /\ ~alive["server"]
    /\ pc' = "fin_term"
    /\ fin' = 1
    /\ UNCHANGED <<cleanVars, pipeVars, variant, stale, spawns, vlog, handle, spawned,
                   alive, termLog, elapsed, attempt,
                   reqs, interrupts, gate, tunnelStage, workerStage,
                   readyReported, pending, exitStatus, idleTicks, portPids,
                   reapKills>>


(***************************************************************************)
(* The finally block of run().                                             *)
(***************************************************************************)
\* The process of the block of finally being run.
FinProc == FinalSeq[fin]

\* Go on with the next block of finally.
FinAdvance ==
    /\ fin' = fin + 1
    /\ pc' = "fin_term"
    /\ UNCHANGED <<pending, exitStatus>>

\* An exception raised inside finally and not caught there leaves run().
FinEscape(e) ==
    /\ pc' = "done"
    /\ pending' = e
    /\ exitStatus' = "nonzero"
    /\ UNCHANGED fin

\* `if settlement_worker:` / `if ngrok:` / `if dev_server:` is false.
FinSkip ==
    /\ pc = "fin_term"
    /\ fin <= Len(FinalSeq)
    /\ ~handle[FinProc]
    /\ FinAdvance
    /\ UNCHANGED <<cleanVars, pipeVars, variant, stale, spawns, vlog, handle, spawned,
                   alive, termLog, elapsed, attempt,
                   reqs, interrupts, gate, tunnelStage, workerStage,
                   readyReported, idleTicks, portPids, reapKills>>

\* p.terminate() of the block of finally being run.
FinTerminate ==
    /\ pc = "fin_term"
    /\ fin <= Len(FinalSeq)
    /\ handle[FinProc]
    /\ termLog' = LogCall("terminate", FinProc)
    /\ \E raised \in BOOLEAN :
         IF ~raised
         THEN IF GraceKind(FinProc) = "none"
              THEN FinAdvance
              ELSE pc' = "fin_grace" /\ UNCHANGED <<fin, pending, exitStatus>>
         ELSE IF TermErrorCaught(FinProc)
              THEN FinAdvance
              ELSE FinEscape("Error")
    /\ UNCHANGED <<cleanVars, pipeVars, variant, stale, spawns, vlog, handle, spawned,
                   alive, elapsed, attempt, reqs,
                   interrupts, gate, tunnelStage, workerStage, readyReported,
                   idleTicks, portPids, reapKills>>

\* settlement_worker.wait(timeout=10) returns: the worker has exited.
FinWaitExited ==
    /\ pc = "fin_grace"
    /\ GraceKind(FinProc) = "wait"
    /\ ~alive[FinProc]
    /\ FinAdvance
    /\ UNCHANGED <<cleanVars, pipeVars, variant, stale, spawns, vlog, handle, spawned,
                   alive, termLog, elapsed, attempt,
                   reqs, interrupts, gate, tunnelStage, workerStage,
                   readyReported, idleTicks, portPids, reapKills>>

\* The kill() of a block: logged, and the process is gone unless kill() raised.
Kill(p, raised) ==
    /\ termLog' = LogCall("kill", p)
    /\ alive' = IF raised THEN alive ELSE [alive EXCEPT ![p] = FALSE]

\* settlement_worker.wait(timeout=10) raises TimeoutExpired: kill(); wait().
FinWaitTimeout ==
    /\ pc = "fin_grace"
    /\ GraceKind(FinProc) = "wait"
    /\ alive[FinProc]
    /\ \E raised \in BOOLEAN :
         /\ Kill(FinProc, raised)
         /\ IF raised /\ ~KillErrorCaught(FinProc)
            THEN FinEscape("Error")
            ELSE FinAdvance
    /\ UNCHANGED <<cleanVars, pipeVars, variant, stale, spawns, vlog, handle, spawned,
                   elapsed, attempt, reqs,
                   interrupts, gate, tunnelStage, workerStage, readyReported,
                   idleTicks, portPids, reapKills>>

\* ngrok / dev_server: time.sleep(n) is over, `try: p.kill() except: pass`.
FinSleepKill ==
    /\ pc = "fin_grace"
    /\ GraceKind(FinProc) = "sleep"
    /\ \E raised \in BOOLEAN :
         /\ Kill(FinProc, raised)
         /\ IF raised /\ ~KillErrorCaught(FinProc)
            THEN FinEscape("Error")
            ELSE FinAdvance
    /\ UNCHANGED <<cleanVars, pipeVars, variant, stale, spawns, vlog, handle, spawned,
                   elapsed, attempt, reqs,
                   interrupts, gate, tunnelStage, workerStage, readyReported,
                   idleTicks, portPids, reapKills>>

\* The end of finally ("Shutdown complete"): run() returns, or the pending
\* exception (SystemExit, an uncaught error) goes on to the interpreter.
FinEnd ==
    /\ pc = "fin_term"
    /\ fin > Len(FinalSeq)
    /\ pc' = "done"
    /\ exitStatus' = IF pending = "none" THEN "zero" ELSE "nonzero"
    /\ UNCHANGED <<cleanVars, pipeVars, variant, stale, spawns, vlog, handle, spawned,
                   alive, termLog, fin, elapsed,
                   attempt, reqs, interrupts, gate, tunnelStage, workerStage,
                   readyReported, pending, idleTicks, portPids, reapKills>>

(***************************************************************************)
(* Environment.                                                            *)
(***************************************************************************)
\* A child writes to its stdout or stderr.  Nothing reads the pipes of a
\* running child: the write that finds the pipe full does not return.
ChildWrite(p) ==
    /\ pc # "done"
    /\ Piped(p)
    /\ alive[p]
    /\ ~blocked[p]
    /\ IF pipe[p] < PipeCap
       THEN pipe' = [pipe EXCEPT ![p] = @ + 1] /\ UNCHANGED blocked
       ELSE blocked' = [blocked EXCEPT ![p] = TRUE] /\ UNCHANGED pipe
    /\ UNCHANGED <<cleanVars, variant, stale, spawns, vlog, pc, handle,
                   spawned, alive, termLog, fin, elapsed,
                   attempt, reqs, interrupts, gate, tunnelStage, workerStage,
                   readyReported, pending, exitStatus, idleTicks, portPids,
                   reapKills>>

\* A child process exits, by itself or in answer to a termination request;
\* a child stuck in a write only goes when it is terminated.
ProcExit(p) ==
    /\ pc # "done"
    /\ alive[p]
    /\ blocked[p] => Calls("terminate", p) # {}
    /\ alive' = [alive EXCEPT ![p] = FALSE]
    /\ blocked' = [blocked EXCEPT ![p] = FALSE]
    /\ UNCHANGED <<cleanVars, pipe, variant, stale, spawns, vlog, pc, handle,
                   spawned, termLog, fin, elapsed,
                   attempt, reqs, interrupts, gate, tunnelStage, workerStage,
                   readyReported, pending, exitStatus, idleTicks, portPids,
                   reapKills>>

\* Ctrl+C: KeyboardInterrupt is raised at the supervisor's current position.
\*   before `try`      : nothing catches it
\*   inside `try`      : `except KeyboardInterrupt` of run(), then finally
\*   inside `finally`  : it leaves run(), the rest of finally is skipped
Interrupt ==
    /\ pc # "done"
    /\ interrupts < MaxInterrupts
    /\ interrupts' = interrupts + 1
    /\ IF pc = "reap"
       THEN /\ pc' = "done"
            /\ pending' = "KeyboardInterrupt"
            /\ exitStatus' = "nonzero"
            /\ UNCHANGED <<fin, attempt, tunnelStage, elapsed>>
       ELSE IF pc \in FinallyStates
       THEN FinEscape("KeyboardInterrupt")
            /\ UNCHANGED <<attempt, tunnelStage, elapsed>>
       ELSE IF pc \in VerifyStates /\ VerifyCatchesInterrupt
       THEN /\ NextAttempt
            /\ fin' = IF pc' \in FinallyStates THEN 1 ELSE fin
            /\ UNCHANGED <<pending, exitStatus, elapsed>>
       ELSE /\ pc' = "fin_term"
            /\ fin' = 1
            /\ elapsed' = 0
            /\ UNCHANGED <<pending, exitStatus, attempt, tunnelStage>>
    /\ UNCHANGED <<cleanVars, pipeVars, variant, stale, spawns, vlog, handle, spawned,
                   alive, termLog, reqs, gate,
                   workerStage, readyReported, idleTicks, portPids, reapKills>>

(***************************************************************************)
(* Specifications.                                                         *)
(***************************************************************************)
Supervisor ==
    \/ KillProcessOnPort
    \/ SpawnServer
    \/ WaitTimedOut
    \/ HealthGet
    \/ RootGet
    \/ FailTerminate
    \/ SpawnTunnel
    \/ VerifyLocalGet
    \/ VerifyTunnelGet
    \/ ServerPoll
    \/ TunnelPoll
    \/ SpawnWorker
    \/ WorkerCheck
    \/ IdleTick
    \/ ServerWaitReturns
    \/ FinSkip
    \/ FinTerminate
    \/ FinWaitExited
    \/ FinWaitTimeout
    \/ FinSleepKill
    \/ FinEnd

Environment ==
    \/ \E p \in Procs : ProcExit(p)
    \/ \E p \in Procs : ChildWrite(p)
    \/ Interrupt

Next == Supervisor \/ Environment

Spec == Init /\ [][Next]_vars

\* The interpreter keeps running run(): a supervisor step that can be taken
\* is eventually taken.  Nothing is assumed of the environment.
FairSpec == Spec /\ WF_vars(Supervisor)

TypeOK ==
    /\ variant \in Variants
    /\ pc \in PcStates
    /\ handle \in [Procs -> BOOLEAN]
    /\ spawned \in [Procs -> BOOLEAN]
    /\ alive \in [Procs -> BOOLEAN]
    /\ fin \in 0..(Len(FinalSeq) + 1)
    /\ attempt \in 0..max_attempts
    /\ interrupts \in 0..MaxInterrupts
    /\ gate \in {"none", "ready", "timedout", "error"}
    /\ tunnelStage \in {"none", "pass", "fail"}
    /\ workerStage \in {"none", "ready", "failed"}
    /\ pending \in {"none", "SystemExit", "Error", "KeyboardInterrupt"}
    /\ exitStatus \in {"none", "zero", "nonzero"}
    /\ stale \in BOOLEAN
    /\ spawns \in [Procs -> 0..1]
    /\ Len(vlog) <= 2 * max_attempts
    /\ pipe \in [Procs -> 0..PipeCap]
    /\ blocked \in [Procs -> BOOLEAN]


(***************************************************************************)
(* scripts/clean.py.                                                       *)
(***************************************************************************)
\* The launcher is not running.
LauncherOff ==
    /\ variant = "scripts"
    /\ pc = "done"
    /\ handle = [p \in Procs |-> FALSE]
    /\ spawned = [p \in Procs |-> FALSE]
    /\ alive = [p \in Procs |-> FALSE]
    /\ termLog = <<>>
    /\ fin = 0
    /\ elapsed = 0
    /\ attempt = 0
    /\ reqs = 0
    /\ interrupts = 0
    /\ gate = "none"
    /\ tunnelStage = "none"
    /\ workerStage = "none"
    /\ readyReported = FALSE
    /\ pending = "none"
    /\ exitStatus = "none"
    /\ idleTicks = 0
    /\ portPids = 0
    /\ reapKills = 0
    /\ stale = FALSE
    /\ spawns = [p \in Procs |-> 0]
    /\ vlog = <<>>
    /\ pipe = [p \in Procs |-> 0]
    /\ blocked = [p \in Procs |-> FALSE]

CleanInit ==
    /\ LauncherOff
    /\ cpc = "scan"
    /\ fsize \in [Files -> {0, 1}]
    /\ empty_files = <<>>
    /\ answer = ""
    /\ idx = 0
    /\ recheck = [f \in Files |-> "none"]
    /\ deleted = {}

RECURSIVE ConcatAll(_)
ConcatAll(ss) == IF ss = <<>> THEN <<>> ELSE Head(ss) \o ConcatAll(Tail(ss))

\* os.walk without `dirs[:] = [d for d in dirs if d not in EXCLUDED_DIRS]`.
RECURSIVE WalkNoPrune(_)
WalkNoPrune(d) ==
    (IF fsize[d] = 0 THEN <<d>> ELSE <<>>)
    \o (IF Len(d) < MaxDepth
        THEN ConcatAll([k \in 1..Len(DirOrder) |-> WalkNoPrune(Append(d, DirOrder[k]))])
        ELSE <<>>)

\* find_empty_files from directory d on: the file of d when its st_size is
\* 0, then the walk of every subdirectory whose name is not excluded.
RECURSIVE Walk(_)
Walk(d) ==
    (IF fsize[d] = 0 THEN <<d>> ELSE <<>>)
    \o (IF Len(d) < MaxDepth
        THEN ConcatAll([k \in 1..Len(DirOrder) |->
                          IF DirOrder[k] \notin EXCLUDED_DIRS
                          THEN Walk(Append(d, DirOrder[k]))
                          ELSE <<>>])
        ELSE <<>>)

\* empty_files = find_empty_files(PROJECT_ROOT); return when it is empty.
Scan ==
    /\ cpc = "scan"
    /\ empty_files' = Walk(<<>>)
    /\ cpc' = IF empty_files' = <<>> THEN "done" ELSE "confirm"
    /\ UNCHANGED <<launcherVars, fsize, answer, idx, recheck, deleted>>

\* What the user may type at the prompt.
Answers == {"y", " Y ", "yes", "n"}

\* input(...).strip().lower()
StripLower(a) ==
    CASE a = "y" -> "y"
      [] a = " Y " -> "y"
      [] a = "yes" -> "yes"
      [] a = "n" -> "n"

\* response = input(...); `if response != 'y': return`.
Confirm ==
    /\ cpc = "confirm"
    /\ \E a \in Answers :
         /\ answer' = a
         /\ IF StripLower(a) # "y"
            THEN cpc' = "done" /\ UNCHANGED idx
            ELSE cpc' = "recheck" /\ idx' = 1
    /\ UNCHANGED <<launcherVars, fsize, empty_files, recheck, deleted>>

\* The deletion loop goes on with the next file of the list.
NextFile ==
    /\ idx' = idx + 1
    /\ cpc' = IF idx + 1 > Len(empty_files) THEN "done" ELSE "recheck"

\* `if file_path.exists() and file_path.stat().st_size == 0`, else "Skipped".
Recheck ==
    /\ cpc = "recheck"
    /\ LET f == empty_files[idx]
       IN  IF fsize[f] = 0
           THEN /\ recheck' = [recheck EXCEPT ![f] = "empty"]
                /\ cpc' = "unlink"
                /\ UNCHANGED idx
           ELSE /\ recheck' = [recheck EXCEPT ![f] = "nonempty"]
                /\ NextFile
    /\ UNCHANGED <<launcherVars, fsize, empty_files, answer, deleted>>

\* file_path.unlink(); deleted_count += 1.
Unlink ==
    /\ cpc = "unlink"
    /\ deleted' = deleted \cup {empty_files[idx]}
    /\ NextFile
    /\ UNCHANGED <<launcherVars, fsize, empty_files, answer, recheck>>

\* Another program writes into a file that the scan found empty (what is
\* written before the scan, or into other files, is in the initial sizes).
WriteFile(f) ==
    /\ cpc \notin {"off", "scan", "done"}
    /\ f \notin deleted
    /\ fsize[f] = 0
    /\ fsize' = [fsize EXCEPT ![f] = 1]
    /\ UNCHANGED <<launcherVars, cpc, empty_files, answer, idx, recheck,
                   deleted>>

Cleaner == Scan \/ Confirm \/ Recheck \/ Unlink

FileSystem == \E i \in 1..Len(empty_files) : WriteFile(empty_files[i])

CleanNext == Cleaner \/ FileSystem

CleanSpec == CleanInit /\ [][CleanNext]_vars

(***************************************************************************)
(* Properties.                                                             *)
(***************************************************************************)
ShuttingDown == pc \in FinallyStates \cup {"done"}

\* C1: the tunnel and the worker are spawned only after wait_for_server has
\* returned True; when the gate times out neither is ever spawned, and every
\* terminate()/kill() of the run goes to a process that had been spawned.
C1_GateOrdersSpawns ==
    /\ (spawned["tunnel"] \/ spawned["worker"]) => gate = "ready"
    /\ gate = "timedout" => ~spawned["tunnel"] /\ ~spawned["worker"]
    /\ \A i \in 1..Len(termLog) : spawned[termLog[i].proc]

\* The gate timed out and the run ended after terminating the server.
C1_Witness ==
    /\ pc = "done"
    /\ gate = "timedout"
    /\ Calls("terminate", "server") # {}

\* C2: termination requests are issued in the reverse of the start order:
\* no request to a process comes before a request to a process started later,
\* and when a process is asked to stop every process started later that is
\* still tracked has been asked before.
C2_ReverseOrder ==
    /\ \A i, j \in 1..Len(termLog) :
         i < j => StartRank(termLog[i].proc) >= StartRank(termLog[j].proc)
    /\ \A p, q \in Procs :
         (Calls("terminate", p) # {} /\ handle[q] /\ StartRank(q) > StartRank(p))
            => Calls("terminate", q) # {}

\* An interrupted run that asked worker, tunnel and server to stop.
C2_Witness ==
    /\ pc = "done"
    /\ interrupts > 0
    /\ \A p \in Procs : Calls("terminate", p) # {}

\* C3: a forced kill is issued at most once per process, and never to a
\* process that had exited by the end of its grace period.
C3_KillOnlyAfterGrace ==
    \A p \in Procs :
        /\ Cardinality(Calls("kill", p)) <= 1
        /\ \A i \in Calls("kill", p) : ~termLog[i].exited

\* C4: a failed tunnel stage does not abort the run: with the tunnel stage
\* failed, the supervisor is in shutdown without having reported readiness
\* only if it was interrupted.
C4_TunnelFailureNotFatal ==
    (tunnelStage = "fail" /\ ShuttingDown /\ ~readyReported) => interrupts > 0

\* The tunnel stage failed and the supervisor reported readiness and idles.
C4_Witness ==
    /\ tunnelStage = "fail"
    /\ readyReported
    /\ pc = "idle"

\* C5: readiness is reported only when the server and the worker are Ready;
\* a worker found exited at its check leads to shutdown, not to idling.
C5_ReadyOnlyIfWorkerReady ==
    /\ readyReported => gate = "ready"
    /\ readyReported /\ variant = "scripts" => workerStage = "ready"
    /\ workerStage = "failed" => ShuttingDown

\* C6: run() ends with a non-zero status when the server gate timed out, and
\* with status zero after an interrupt whose shutdown ran to completion.
C6_ExitStatus ==
    pc = "done" =>
        /\ gate = "timedout" => exitStatus = "nonzero"
        /\ (gate # "timedout" /\ interrupts > 0 /\ pending = "none")
              => exitStatus = "zero"

\* C7: while the supervisor idles, the exit of the server or of a Ready
\* worker eventually ends the idle wait and starts shutdown.
C7_RequiredExitEndsIdle ==
    (pc = "idle" /\ (~alive["server"] \/ (workerStage = "ready" /\ ~alive["worker"])))
        ~> ShuttingDown

\* C8: every process receives at most one terminate() in a run.
C8_AtMostOneTerminate ==
    \A p \in Procs : Cardinality(Calls("terminate", p)) <= 1

\* C9: an interrupt during wait_for_server or verify_ngrok_tunnel takes the
\* supervisor straight to the start of finally, and once an interrupt has
\* been delivered no request is issued and no process is spawned.
C9_InterruptAbortsPoll ==
    [][ /\ (pc \in PollStates /\ interrupts' > interrupts)
            => (pc' = "fin_term" /\ fin' = 1 /\ reqs' = reqs)
        /\ interrupts > 0 => (reqs' = reqs /\ spawned' = spawned) ]_vars

\* verify_ngrok_tunnel was interrupted after a request, shutdown is running.
C9_Witness ==
    /\ interrupts = 1
    /\ pc = "fin_term"
    /\ attempt > 0
    /\ reqs > 0
    /\ spawned["tunnel"]

\* C10: once shutdown has issued a termination request, run() does not end
\* before every tracked process has received its own.
C10_ShutdownProceeds ==
    (pc = "done" /\ termLog # <<>>) =>
        \A p \in Procs : handle[p] => Calls("terminate", p) # {}


\* C11: the stages follow the order reap, server, gate, tunnel, tunnel
\* check, worker, idle: nothing is spawned during the reap, the tunnel is
\* spawned only with the gate passed, the worker only with the tunnel
\* spawned and its check finished (passed or failed), and readiness is
\* reported only after all of them.
C11_StartupOrder ==
    /\ pc = "reap" => \A p \in Procs : ~spawned[p]
    /\ gate # "none" => spawned["server"]
    /\ spawned["tunnel"] => gate = "ready"
    /\ tunnelStage # "none" => spawned["tunnel"]
    /\ spawned["worker"] => spawned["tunnel"] /\ tunnelStage \in {"pass", "fail"}
    /\ readyReported =>
          /\ tunnelStage \in {"pass", "fail"}
          /\ variant = "scripts" => spawned["worker"]

\* The worker has just been spawned after a failed tunnel verification.
C11_Witness ==
    /\ pc = "worker_check"
    /\ tunnelStage = "fail"
    /\ spawned["worker"]
    /\ alive["tunnel"]

\* C12: run() never ends with an error travelling out of it as an uncaught
\* exception.
C12_NoUncaughtError ==
    pc = "done" => pending # "Error"

\* C13: every process is spawned at most once in a run, and no process is
\* spawned once a termination request has been issued.
C13_SpawnOnce ==
    /\ [](\A p \in Procs : spawns[p] <= 1)
    /\ [][termLog # <<>> => spawns' = spawns]_vars

\* All three processes were spawned, once each, and shutdown is under way.
C13_Witness ==
    /\ \A p \in Procs : spawns[p] = 1
    /\ pc = "fin_grace"
    /\ Len(termLog) >= 3

\* C14: wait_for_server ends by returning True or False, never otherwise,
\* and issues no request once the timeout has elapsed.
C14_ProbeReturns ==
    /\ gate # "error"
    /\ pc = "ws_root" => elapsed < SERVER_TIMEOUT

\* C15: a server process that has exited while its gate is still pending
\* never passes the gate.
C15_DeadServerNeverReady ==
    [][(spawned["server"] /\ ~alive["server"] /\ gate = "none")
          => gate' # "ready"]_vars

C18_PublicOnlyAfterLocalOk ==
    \A i \in 1..Len(vlog) :
        /\ vlog[i].url = "tunnel" =>
              /\ i > 1
              /\ vlog[i - 1].url = "local"
              /\ vlog[i - 1].ok
              /\ vlog[i - 1].attempt = vlog[i].attempt
        /\ (vlog[i].url = "local" /\ ~vlog[i].ok /\ i < Len(vlog)) =>
              /\ vlog[i + 1].url = "local"
              /\ vlog[i + 1].attempt = vlog[i].attempt + 1

\* A failed local check, and later a request to the public URL.
C18_Witness ==
    /\ Len(vlog) >= 3
    /\ ~vlog[1].ok
    /\ vlog[Len(vlog)].url = "tunnel"

\* Attempts of verify_ngrok_tunnel in which both checks answered 200.
GoodAttempts ==
    {a \in 1..(max_attempts + 1) :
        /\ \E i \in 1..Len(vlog) :
             vlog[i].attempt = a /\ vlog[i].url = "local" /\ vlog[i].ok
        /\ \E i \in 1..Len(vlog) :
             vlog[i].attempt = a /\ vlog[i].url = "tunnel" /\ vlog[i].ok}

LocalAttempts == {vlog[i].attempt : i \in {j \in 1..Len(vlog) : vlog[j].url = "local"}}

\* C19: verify_ngrok_tunnel makes at most max_attempts attempts and always
\* returns; it returns True exactly when an attempt had both checks answer
\* 200, stopping at the first one, and False after max_attempts attempts
\* without one.
C19_VerifyResult ==
    /\ [](variant = "scripts" =>
            /\ \A i \in 1..Len(vlog) : vlog[i].attempt \in 1..max_attempts
            /\ Len(vlog) <= 2 * max_attempts
            /\ tunnelStage = "pass" <=> GoodAttempts # {}
            /\ tunnelStage = "pass" =>
                  /\ Cardinality(GoodAttempts) = 1
                  /\ vlog[Len(vlog)].url = "tunnel" /\ vlog[Len(vlog)].ok
            /\ tunnelStage = "fail" =>
                  /\ LocalAttempts = 1..max_attempts
                  /\ GoodAttempts = {})
    /\ (pc \in VerifyStates) ~> (pc \notin VerifyStates)

\* verify_ngrok_tunnel succeeded at its last attempt.
C19_Witness ==
    /\ tunnelStage = "pass"
    /\ Len(vlog) > 2
    /\ vlog[Len(vlog)].attempt = max_attempts

\* C20: every retry of wait_for_server, after a refused or timed out request
\* as after a response that fails the accept predicate, sleeps the retry
\* interval before the next pass of the loop.
C20_RetriesSleep ==
    [][(pc \in {"ws_loop", "ws_root"} /\ pc' = "ws_loop" /\ reqs' = reqs + 1)
          => elapsed' >= elapsed + Latency + RetrySleep]_vars

\* C21: when shutdown reports its completion, every process that was spawned
\* and is tracked has exited.
C21_ExitConfirmed ==
    [][(pc = "fin_term" /\ fin > Len(FinalSeq) /\ pc' = "done"
          /\ interrupts' = interrupts)
          => \A p \in Procs : (spawned[p] /\ handle[p]) => ~alive'[p]]_vars

\* C22: a worker found exited at its check after the spawn is no longer
\* tracked and receives neither terminate() nor kill(); the tunnel and the
\* server stay tracked, are asked to stop tunnel first, and both have been
\* asked when finally has run to its end.
C22_FailedWorkerUntracked ==
    workerStage = "failed" =>
        /\ ~handle["worker"]
        /\ handle["tunnel"] /\ handle["server"]
        /\ \A i \in 1..Len(termLog) : termLog[i].proc # "worker"
        /\ \A i \in Calls("terminate", "server") :
              \E j \in Calls("terminate", "tunnel") : j < i
        /\ (pc = "done" /\ pending = "none") =>
              /\ Calls("terminate", "tunnel") # {}
              /\ Calls("terminate", "server") # {}

\* The worker had exited at its check and shutdown went through the tunnel
\* and the server.
C22_Witness ==
    /\ pc = "done"
    /\ workerStage = "failed"
    /\ pending = "none"
    /\ Calls("terminate", "tunnel") # {}
    /\ Calls("terminate", "server") # {}
    /\ Calls("terminate", "worker") = {}
\* C23: in nssports/start.py a server that keeps writing to its pipes is
\* never stuck: while the launcher probes it or waits on it, a running
\* server can always go on and exit, so that the wait on it can end.
C23_ServerNeverStuck ==
    (variant = "nssports" /\ pc \in {"ws_loop", "ws_root", "idle"}
        /\ alive["server"]) => ENABLED ProcExit("server")

\* C17: the cleaner unlinks a file only after the user answered y, only when
\* the re-check of that file found it with 0 bytes, and never a file under
\* an excluded directory; a file found non-empty at its re-check is skipped.
C17_DeletesOnlyConfirmedEmpty ==
    /\ \A f \in deleted :
          /\ answer \in {"y", " Y "}
          /\ recheck[f] = "empty"
          /\ ~InExcluded(f)
    /\ \A f \in Files : recheck[f] = "nonempty" => f \notin deleted
    /\ \A f \in Files : InExcluded(f) => recheck[f] = "none"

\* The cleaner is over: it deleted a file, skipped one that had been written
\* to since the scan, and left an empty file under node_modules alone.
C17_Witness ==
    /\ cpc = "done"
    /\ deleted # {}
    /\ \E f \in Files : recheck[f] = "nonempty"
    /\ \E f \in Files : InExcluded(f) /\ fsize[f] = 0

====
